---- MODULE Spec2Model ----
(***************************************************************************)
(* Model of rassine's preprocess_import step                               *)
(* (src/rassine/cli/preprocess_import.py): the per-observation transform   *)
(* preprocess_fits_harps_coraline_harpn, the gap detector find_hole and    *)
(* the driver run(), whose invocations share one output table guarded by   *)
(* a file lock.                                                            *)
(*                                                                         *)
(* Numbers.  Wavelengths and the header values CDELT1 and CRVAL1 are       *)
(* integers counting units of 1e-9, so np.round(x, 8) rounds to the        *)
(* nearest multiple of 10, ties to the even multiple.  Flux samples are    *)
(* integers; only their sign, their being exactly zero and their mean      *)
(* are read by the code.  Times count half days, so mjd + 0.5 is mjd + 1.  *)
(***************************************************************************)
EXTENDS Integers, Sequences, FiniteSets, TLC

VARIABLES
    \* ---- run(): the dataset on disk and the invocations
    nrows,        \* number of rows of the input table (len(tyble))
    files,        \* files[i]: the FITS file of row i, 0-based
    task,         \* task[p]: the Task of invocation p (instrument, inputs)
    pc,           \* pc[p]: where invocation p is in run()
    pos,          \* pos[p]: number of loop iterations completed without failure
    rows1,        \* rows1[p]: the rows accumulated so far
    error,        \* error[p]: the exception that ended invocation p, or "none"
    needHeader,   \* needHeader[p]: value of `not output_table.exists()`
    written,      \* written[p]: lines of its batch invocation p has written
    lock,         \* holder of the lock file, 0 when free
    lockLog,      \* invocations in the order they acquired the lock
    tableExists,  \* whether the output table file exists
    table,        \* lines of the output table file
    artifacts,    \* artifacts[name]: the pickle files in the output folder
    io,           \* io[p]: the I/O operations invocation p has performed
    \* ---- preprocess_fits_harps_coraline_harpn as a function
    obs,          \* the arguments of one call
    result,       \* what the call produced, <<>> before it
    \* ---- find_hole as a function
    segs,         \* the flux argument, run-length encoded
    waveArg,      \* start and step of the wave argument
    hole          \* the returned pair, <<>> before the call

runVars == <<nrows, files, task, pc, pos, rows1, error, needHeader,
             written, lock, lockLog, tableExists, table, artifacts, io>>
preVars == <<obs, result>>
holeVars == <<segs, waveArg, hole>>
vars == <<runVars, preVars, holeVars>>

----------------------------------------------------------------------------
(* Bounds of the model *)

MaxSegs == 3        \* find_hole: segments of the run-length encoded flux
MaxLen == 3         \* preprocess: samples of the raw flux array
MaxRows == 3        \* run: rows of the input table
NInv == 2           \* run: invocations

----------------------------------------------------------------------------
(* Program constants *)

\* find_hole: a run is a hole when it is longer than this many samples
HoleMinRun == 1000
\* CORALIE: mean flux below which the first calibration constant applies
CoralieMeanThreshold == 100000
\* rassine.data.absurd_minus_99_9, the "no hole" sentinel -99.9; the model
\* writes it as an integer that no modelled wavelength takes
absurd_minus_99_9 == -999

----------------------------------------------------------------------------
(* Small helpers standing for numpy primitives *)

SetMin(S) == CHOOSE m \in S : \A y \in S : m <= y
SetMax(S) == CHOOSE m \in S : \A y \in S : y <= m

RECURSIVE SeqSum(_)
SeqSum(s) == IF s = <<>> THEN 0 ELSE Head(s) + SeqSum(Tail(s))

RECURSIVE SortedSeq(_)
SortedSeq(S) == IF S = {} THEN <<>>
                ELSE LET m == SetMin(S) IN <<m>> \o SortedSeq(S \ {m})

\* np.round(x, 8) of a value x given in units of 1e-9
Round8(x) ==
    LET q == x \div 10
        r == x % 10
    IN  IF r < 5 THEN 10 * q
        ELSE IF r > 5 THEN 10 * (q + 1)
        ELSE IF q % 2 = 0 THEN 10 * q ELSE 10 * (q + 1)

\* np.round(p / q, 8) for the rational p / q, q > 0
Round8Rat(p, q) ==
    LET k == p \div (10 * q)
        rem == p - k * 10 * q
    IN  IF 2 * rem < 10 * q THEN 10 * k
        ELSE IF 2 * rem > 10 * q THEN 10 * (k + 1)
        ELSE IF k % 2 = 0 THEN 10 * k ELSE 10 * (k + 1)

\* np.round(np.linspace(a, b, n), 8)
RoundedLinspace(a, b, n) ==
    [i \in 1..n |-> IF n = 1 THEN Round8(a)
                    ELSE Round8Rat(a * (n - 1) + (i - 1) * (b - a), n - 1)]

\* np.diff
Diff(s) == [k \in 1..(Len(s) - 1) |-> s[k + 1] - s[k]]

\* arr[b : e + 1] for 0-based b, e
Slice(s, b, e) == [i \in 1..(e - b + 1) |-> s[b + i]]

\* rassine.math.create_grid(start, step, n): the linear grid
create_grid(start, step, n) == [i \in 1..n |-> start + (i - 1) * step]

----------------------------------------------------------------------------
(* find_hole *)

\* np.where(flux == 0)[0]: the 0-based indices of the exactly-zero samples
NullFlux(flux) ==
    SelectSeq([i \in 1..Len(flux) |-> i - 1], LAMBDA i : flux[i + 1] = 0)

\* rassine.analysis.grouping(d, tresh, num)[-1] on d = np.diff(null_flux):
\* the maximal runs of consecutive indices as rows (first, last, length),
\* first and last being 0-based positions in null_flux.  Two neighbours
\* belong to one run when their difference is within tresh of the unit
\* step; tresh2 is twice tresh.  num (the minimal length of the groups of
\* the first returned component, which find_hole drops) does not enter.
grouping(d, tresh2, num) ==
    LET n == Len(d)
        unit(k) == 2 * (d[k] - 1) < tresh2 /\ 2 * (1 - d[k]) < tresh2
        starts == {k \in 0..n : k = 0 \/ ~unit(k)}
        ends == {k \in 0..n : k = n \/ ~unit(k + 1)}
        left == SortedSeq(starts)
        right == SortedSeq(ends)
    IN  [j \in 1..Len(left) |-> <<left[j], right[j], 1 + right[j] - left[j]>>]

\* mask[:, 2].argmax(): the first row of greatest length (1-based here)
ArgMaxLength(mask) ==
    SetMin({j \in 1..Len(mask) : \A k \in 1..Len(mask) : mask[k][3] <= mask[j][3]})

find_hole_ge(wave, flux) ==
    LET null_flux == NullFlux(flux)
    IN  IF Len(null_flux) > 0
        THEN LET mask == grouping(Diff(null_flux), 1, 0)
                 highest == mask[ArgMaxLength(mask)]
             IN  IF highest[3] >= HoleMinRun
                 THEN <<wave[null_flux[highest[1] + 1] + 1],
                        wave[null_flux[highest[2] + 1] + 1]>>
                 ELSE <<absurd_minus_99_9, absurd_minus_99_9>>
        ELSE <<absurd_minus_99_9, absurd_minus_99_9>>

find_hole(wave, flux) ==
    LET null_flux == NullFlux(flux)
    IN  IF Len(null_flux) > 0
        THEN LET mask == grouping(Diff(null_flux), 1, 0)
                 highest == mask[ArgMaxLength(mask)]
             IN  IF highest[3] > HoleMinRun
                 THEN <<wave[null_flux[highest[1] + 1] + 1],
                        wave[null_flux[highest[2] + 1] + 1]>>
                 ELSE <<absurd_minus_99_9, absurd_minus_99_9>>
        ELSE <<absurd_minus_99_9, absurd_minus_99_9>>

----------------------------------------------------------------------------
(* preprocess_fits_harps_coraline_harpn *)

HeaderKey(kw, suffix) == "HIERARCH " \o kw \o " " \o suffix

\* an exception leaving the function: nothing was written, nothing returned
Raise(exc, what) == [ok |-> FALSE, error |-> exc, at |-> what]

PositiveIdx(spectre) == {i \in 1..Len(spectre) : spectre[i] > 0}
NonNegativeIdx(spectre) == {i \in 1..Len(spectre) : spectre[i] >= 0}

TrimRange_ge(spectre) ==
    IF NonNegativeIdx(spectre) = {} THEN [ok |-> FALSE]
    ELSE [ok |-> TRUE, begin |-> SetMin(NonNegativeIdx(spectre)) - 1,
          end |-> SetMax(NonNegativeIdx(spectre)) - 1]

\* begin and end, 0-based: np.min and np.max of the indices of the
\* strictly positive samples; both raise ValueError on an empty selection
TrimRange(spectre) ==
    IF PositiveIdx(spectre) = {} THEN [ok |-> FALSE]
    ELSE [ok |-> TRUE, begin |-> SetMin(PositiveIdx(spectre)) - 1,
          end |-> SetMax(PositiveIdx(spectre)) - 1]

\* s[begin : end + 1]
Trim(s, begin, end) == Slice(s, begin, end)

WaveBounds_untrimmed(grid0, begin, end) ==
    <<SetMin({grid0[i] : i \in 1..Len(grid0)}), SetMax({grid0[i] : i \in 1..Len(grid0)})>>

\* wave_min, wave_max = np.min(grid), np.max(grid) of the trimmed grid
WaveBounds(grid0, begin, end) ==
    LET grid == Trim(grid0, begin, end)
    IN  <<SetMin({grid[i] : i \in 1..Len(grid)}), SetMax({grid[i] : i \in 1..Len(grid)})>>

ProperMotion_each(header, kw) ==
    << IF HeaderKey(kw, "TEL TARG PMA") \in DOMAIN header
       THEN header[HeaderKey(kw, "TEL TARG PMA")] * 1000 ELSE 0,
       IF HeaderKey(kw, "TEL TARG PMD") \in DOMAIN header
       THEN header[HeaderKey(kw, "TEL TARG PMD")] * 1000 ELSE 0 >>

\* the try/except around the two proper-motion reads: pma, pmd
ProperMotion(header, kw) ==
    IF /\ HeaderKey(kw, "TEL TARG PMA") \in DOMAIN header
       /\ HeaderKey(kw, "TEL TARG PMD") \in DOMAIN header
    THEN <<header[HeaderKey(kw, "TEL TARG PMA")] * 1000,
           header[HeaderKey(kw, "TEL TARG PMD")] * 1000>>
    ELSE <<0, 0>>

\* acc_sec = distance_m * 86400 * mu_radps^2 is C * (pma^2 + pmd^2) / plx_mas
\* with C = 1000 * 3.08567758e16 * 86400 * (2 pi / (360 * 1000 * 3600 *
\* 86400 * 365.25))^2; it is kept as the pair (numerator, denominator) of
\* the factor of C, and is 0 when plx_mas is 0
SecularAcceleration(plx_mas, pma, pmd) ==
    IF plx_mas # 0 THEN <<pma * pma + pmd * pmd, plx_mas>> ELSE <<0, 1>>

\* the CORALIE rescaling, as the factor the samples are multiplied by:
\* K1 = 400780143771.18976 and K2 = 1.4e10 / 125^2 are both positive
FluxScale(instr, spectre) ==
    IF instr = "CORALIE"
    THEN IF SeqSum(spectre) < CoralieMeanThreshold * Len(spectre)
         THEN "K1/K2" ELSE "1/K2"
    ELSE "1"

preprocess_fits_harps_coraline_harpn(instr, plx_mas, row, file) ==
    LET header == file.header
        spectre0 == file.data
        n == Len(spectre0)
    IN
    IF "CDELT1" \notin DOMAIN header THEN Raise("KeyError", "CDELT1")
    ELSE IF "CRVAL1" \notin DOMAIN header THEN Raise("KeyError", "CRVAL1")
    ELSE
    LET spectre_step == Round8(header["CDELT1"])
        wave_min0 == Round8(header["CRVAL1"])
        wave_max0 == Round8(header["CRVAL1"] + (n - 1) * spectre_step)
        grid0 == RoundedLinspace(wave_min0, wave_max0, n)
        range == TrimRange(spectre0)
    IN
    IF ~range.ok THEN Raise("ValueError", "trim")
    ELSE
    LET grid == Trim(grid0, range.begin, range.end)
        spectre == Trim(spectre0, range.begin, range.end)
        bounds == WaveBounds(grid0, range.begin, range.end)
        wave_min == bounds[1]
        wave_max == bounds[2]
        kw == IF instr = "HARPN" THEN "TNG" ELSE "ESO"
    IN
    IF HeaderKey(kw, "DRS BERV") \notin DOMAIN header
    THEN Raise("KeyError", "DRS BERV")
    ELSE IF HeaderKey(kw, "DRS CAL TH LAMP OFFSET") \notin DOMAIN header
    THEN Raise("KeyError", "DRS CAL TH LAMP OFFSET")
    ELSE
    LET berv == header[HeaderKey(kw, "DRS BERV")]
        lamp == header[HeaderKey(kw, "DRS CAL TH LAMP OFFSET")]
        pm == ProperMotion(header, kw)
        acc_sec == SecularAcceleration(plx_mas, pm[1], pm[2])
        scale == FluxScale(instr, spectre)
        mjd == row.mjd
        jdb == mjd + 1
        wave == create_grid(wave_min, spectre_step, Len(spectre))
        holes == find_hole(wave, spectre)
    IN  [ok |-> TRUE,
         error |-> "none",
         \* the dictionary pickled to <output_folder>/<name>.p
         out |-> [wave |-> "None", flux |-> spectre, flux_scale |-> scale,
                  flux_err |-> [i \in 1..Len(spectre) |-> 0],
                  instrument |-> instr, mjd |-> mjd, jdb |-> jdb,
                  berv |-> berv, lamp_offset |-> lamp, plx_mas |-> plx_mas,
                  acc_sec |-> acc_sec, wave_min |-> wave_min,
                  wave_max |-> wave_max, dwave |-> spectre_step],
         \* the returned Individual1
         row |-> [name |-> row.name, instrument |-> instr, mjd |-> mjd,
                  jdb |-> jdb, berv |-> berv, lamp_offset |-> lamp,
                  plx_mas |-> plx_mas, acc_sec |-> acc_sec,
                  wave_min |-> wave_min, wave_max |-> wave_max,
                  dwave |-> spectre_step, hole_left |-> holes[1],
                  hole_right |-> holes[2]],
         \* locals of the call, kept for the properties below
         locals |-> [begin |-> range.begin, end |-> range.end, grid |-> grid,
                     kw |-> kw, pma |-> pm[1], pmd |-> pm[2]]]

----------------------------------------------------------------------------
(* find_hole applied to bounded inputs *)

\* lengths of the segments: short ones and ones around the threshold
SegLens == {1, HoleMinRun, HoleMinRun + 1}
SegValues == {-1, 0, 1}
Segment == [v : SegValues, len : SegLens]

RECURSIVE Expand(_)
Expand(ss) == IF ss = <<>> THEN <<>>
              ELSE [i \in 1..Head(ss).len |-> Head(ss).v] \o Expand(Tail(ss))

RECURSIVE SeqsUpTo(_, _)
SeqsUpTo(S, n) == IF n = 0 THEN {<<>>}
                  ELSE SeqsUpTo(S, n - 1) \cup [1..n -> S]

InitRunIdle ==
    /\ nrows = 0 /\ files = <<>> /\ task = <<>>
    /\ pc = <<>> /\ pos = <<>> /\ rows1 = <<>> /\ error = <<>>
    /\ needHeader = <<>> /\ written = <<>> /\ lock = 0 /\ lockLog = <<>>
    /\ tableExists = FALSE /\ table = <<>> /\ artifacts = <<>> /\ io = <<>>
InitPreIdle == obs = <<>> /\ result = <<>>
InitHoleIdle == segs = <<>> /\ waveArg = <<0, 0>> /\ hole = <<>>

InitHole ==
    /\ InitRunIdle /\ InitPreIdle
    /\ segs \in SeqsUpTo(Segment, MaxSegs)
    /\ waveArg \in {<<5000, 10>>, <<40, 3>>}
    /\ hole = <<>>

CallFindHole ==
    /\ hole = <<>>
    /\ LET flux == Expand(segs)
       IN  hole' = find_hole(create_grid(waveArg[1], waveArg[2], Len(flux)), flux)
    /\ UNCHANGED <<segs, waveArg, runVars, preVars>>

NextHole == CallFindHole
SpecHole == InitHole /\ [][NextHole]_vars

----------------------------------------------------------------------------
(* preprocess_fits_harps_coraline_harpn applied to bounded inputs *)

HarpsFamily == {"HARPS", "CORALIE", "HARPN"}
Suffixes == {"DRS BERV", "DRS CAL TH LAMP OFFSET", "TEL TARG PMA", "TEL TARG PMD"}
SuffixValue(suffix) ==
    CASE suffix = "DRS BERV" -> 7
      [] suffix = "DRS CAL TH LAMP OFFSET" -> 2
      [] suffix = "TEL TARG PMA" -> 3
      [] suffix = "TEL TARG PMD" -> 4

\* a header written by the reduction software of one family (ESO or TNG):
\* the keys in `present` under that prefix, and CDELT1 / CRVAL1 when given
Header(kw, present, cdelt, crval) ==
    LET hier == {HeaderKey(kw, sfx) : sfx \in present}
        keys == hier \cup (IF cdelt = {} THEN {} ELSE {"CDELT1"})
                     \cup (IF crval = {} THEN {} ELSE {"CRVAL1"})
    IN  [k \in keys |->
            IF k = "CDELT1" THEN CHOOSE v \in cdelt : TRUE
            ELSE IF k = "CRVAL1" THEN CHOOSE v \in crval : TRUE
            ELSE SuffixValue(CHOOSE sfx \in present : HeaderKey(kw, sfx) = k)]

CdeltValues == {-10, 4, 15}
CrvalValues == {25, 1000}
FluxValues == {-1, 0, 1, 200000}

InitPre ==
    /\ InitRunIdle /\ InitHoleIdle
    /\ \E instr \in HarpsFamily, plx \in {0, 100}, kw \in {"ESO", "TNG"},
          present \in SUBSET Suffixes,
          cdelt \in {{}} \cup {{v} : v \in CdeltValues},
          crval \in {{}} \cup {{v} : v \in CrvalValues},
          data \in SeqsUpTo(FluxValues, MaxLen) :
            obs = [instrument |-> instr, plx_mas |-> plx,
                   row |-> [name |-> 0, raw_filename |-> 0, mjd |-> 11],
                   file |-> [header |-> Header(kw, present, cdelt, crval),
                             data |-> data]]
    /\ result = <<>>

CallPreprocess ==
    /\ result = <<>>
    /\ result' = <<preprocess_fits_harps_coraline_harpn(
                      obs.instrument, obs.plx_mas, obs.row, obs.file)>>
    /\ UNCHANGED <<obs, runVars, holeVars>>

NextPre == CallPreprocess
SpecPre == InitPre /\ [][NextPre]_vars

----------------------------------------------------------------------------
(* run(): invocations sharing one dataset, one output table and its lock *)

Invs == 1..NInv
Rows == 0..(nrows - 1)

\* the instrument identifiers the driver is launched with
RunInstruments == {"HARPS", "HARPN", "ESPRESSO", "FOO"}

\* the files of a dataset: well-formed ones, and at most one with a defect
GoodFile == [header |-> Header("ESO", Suffixes, {10}, {1000}), data |-> <<0, 3, 0, 5>>]
Defects == {"CDELT1", "CRVAL1", "DRS BERV", "DRS CAL TH LAMP OFFSET", "flux"}
DefectFile(kind) ==
    [header |-> Header("ESO",
                       Suffixes \ {kind},
                       IF kind = "CDELT1" THEN {} ELSE {10},
                       IF kind = "CRVAL1" THEN {} ELSE {1000}),
     data |-> IF kind = "flux" THEN <<0, -1, 0>> ELSE <<0, 3, 0, 5>>]

\* row i of the input table (Individual): name, raw_filename, mjd
tyble(i) == [name |-> i, raw_filename |-> i, mjd |-> 11 + 2 * i]

\* index sequences without repetition
DistinctSeqs(S) ==
    {s \in SeqsUpTo(S, Cardinality(S)) : \A a, b \in 1..Len(s) : a # b => s[a] # s[b]}

\* the index sequence the loop of run() goes over: every row when
\* t.inputs is empty
LoopInputs(p) ==
    IF task[p].inputs = <<>> THEN [j \in 1..nrows |-> j - 1] ELSE task[p].inputs

\* the columns of Individual1, which the schema emits in sorted order
Columns == <<"acc_sec", "berv", "dwave", "hole_left", "hole_right", "instrument",
             "jdb", "lamp_offset", "mjd", "name", "plx_mas", "wave_max", "wave_min">>

HeaderLine(p) == [kind |-> "header", by |-> p, cols |-> Columns, row |-> <<>>]
RowLine(p, r) == [kind |-> "row", by |-> p, cols |-> <<>>, row |-> <<r>>]

\* what df.to_csv(..., header=needHeader, mode="a") writes, line by line
Batch(p) ==
    (IF needHeader[p] THEN <<HeaderLine(p)>> ELSE <<>>)
        \o [j \in 1..Len(rows1[p]) |-> RowLine(p, rows1[p][j])]

InitRun ==
    /\ InitPreIdle /\ InitHoleIdle
    /\ nrows \in 0..MaxRows
    /\ \E kind \in Defects, bad \in {b \in SUBSET (0..(nrows - 1)) : Cardinality(b) <= 1} :
          files = [i \in 0..(nrows - 1) |-> IF i \in bad THEN DefectFile(kind) ELSE GoodFile]
    /\ task = [p \in Invs |-> [instrument |-> "", inputs |-> <<>>, plx_mas |-> 0]]
    /\ pc = [p \in Invs |-> "idle"]
    /\ pos = [p \in Invs |-> 0]
    /\ rows1 = [p \in Invs |-> <<>>]
    /\ error = [p \in Invs |-> "none"]
    /\ needHeader = [p \in Invs |-> FALSE]
    /\ written = [p \in Invs |-> 0]
    /\ lock = 0
    /\ lockLog = <<>>
    /\ tableExists = FALSE
    /\ table = <<>>
    /\ artifacts = [i \in 0..(nrows - 1) |-> <<>>]
    /\ io = [p \in Invs |-> {}]

Range(s) == {s[j] : j \in 1..Len(s)}

\* the operator launches invocation p with a Task; explicit index
\* selections of different invocations are disjoint, an empty selection
\* stands for every row
Launch(p) ==
    /\ pc[p] = "idle"
    /\ \E instr \in RunInstruments, sel \in DistinctSeqs(Rows) :
          /\ \A q \in Invs \ {p} :
                pc[q] # "idle" => Range(sel) \cap Range(task[q].inputs) = {}
          /\ task' = [task EXCEPT ![p] = [instrument |-> instr, inputs |-> sel, plx_mas |-> 0]]
    /\ pc' = [pc EXCEPT ![p] = "start"]
    /\ UNCHANGED <<nrows, files, pos, rows1, error, needHeader, written, lock,
                   lockLog, tableExists, table, artifacts, io, preVars, holeVars>>

\* read_csv of the input table, rows1 = []
ReadInputTable(p) ==
    /\ pc[p] = "start"
    /\ io' = [io EXCEPT ![p] = @ \cup {<<"read", "input_table", -1>>}]
    /\ pc' = [pc EXCEPT ![p] = "loop"]
    /\ rows1' = [rows1 EXCEPT ![p] = <<>>]
    /\ UNCHANGED <<nrows, files, task, pos, error, needHeader, written, lock,
                   lockLog, tableExists, table, artifacts, preVars, holeVars>>

InLoop(p) == pc[p] = "loop" /\ pos[p] < Len(LoopInputs(p))
Current(p) == LoopInputs(p)[pos[p] + 1]
Outcome(p) ==
    preprocess_fits_harps_coraline_harpn(
        task[p].instrument, task[p].plx_mas, tyble(Current(p)), files[Current(p)])

\* the exception leaves run(): nothing below the loop is executed
Abort(p, exc) ==
    /\ pc' = [pc EXCEPT ![p] = "failed"]
    /\ error' = [error EXCEPT ![p] = exc]

LoopNotImplemented(p) ==
    /\ InLoop(p)
    /\ task[p].instrument \in {"ESPRESSO", "EXPRESS"}
    /\ Abort(p, "NotImplementedError")
    /\ UNCHANGED <<nrows, files, task, pos, rows1, needHeader, written, lock,
                   lockLog, tableExists, table, artifacts, io, preVars, holeVars>>

LoopUnknownInstrument(p) ==
    /\ InLoop(p)
    /\ task[p].instrument \notin {"ESPRESSO", "EXPRESS"}
    /\ task[p].instrument \notin HarpsFamily
    /\ Abort(p, "ValueError")
    /\ UNCHANGED <<nrows, files, task, pos, rows1, needHeader, written, lock,
                   lockLog, tableExists, table, artifacts, io, preVars, holeVars>>

\* one iteration whose call returns: the pickle is written, the row kept
LoopPreprocessOk(p) ==
    /\ InLoop(p)
    /\ task[p].instrument \in HarpsFamily
    /\ Outcome(p).ok
    /\ io' = [io EXCEPT ![p] = @ \cup {<<"read", "fits", Current(p)>>,
                                       <<"write", "pickle", Current(p)>>}]
    /\ artifacts' = [artifacts EXCEPT ![Current(p)] = <<[by |-> p, out |-> Outcome(p).out]>>]
    /\ rows1' = [rows1 EXCEPT ![p] = Append(@, Outcome(p).row)]
    /\ pos' = [pos EXCEPT ![p] = @ + 1]
    /\ UNCHANGED <<nrows, files, task, pc, error, needHeader, written, lock,
                   lockLog, tableExists, table, preVars, holeVars>>

LoopPreprocessFails_flush(p) ==
    /\ InLoop(p)
    /\ task[p].instrument \in HarpsFamily
    /\ ~Outcome(p).ok
    /\ io' = [io EXCEPT ![p] = @ \cup {<<"read", "fits", Current(p)>>}]
    /\ pc' = [pc EXCEPT ![p] = "acquire"]
    /\ error' = [error EXCEPT ![p] = Outcome(p).error]
    /\ UNCHANGED <<nrows, files, task, pos, rows1, needHeader, written, lock,
                   lockLog, tableExists, table, artifacts, preVars, holeVars>>

LoopPreprocessFails_skip(p) ==
    /\ InLoop(p)
    /\ task[p].instrument \in HarpsFamily
    /\ ~Outcome(p).ok
    /\ io' = [io EXCEPT ![p] = @ \cup {<<"read", "fits", Current(p)>>}]
    /\ pos' = [pos EXCEPT ![p] = @ + 1]
    /\ UNCHANGED <<nrows, files, task, pc, error, rows1, needHeader, written, lock,
                   lockLog, tableExists, table, artifacts, preVars, holeVars>>

\* one iteration whose call raises: the exception propagates out of run()
LoopPreprocessFails(p) ==
    /\ InLoop(p)
    /\ task[p].instrument \in HarpsFamily
    /\ ~Outcome(p).ok
    /\ io' = [io EXCEPT ![p] = @ \cup {<<"read", "fits", Current(p)>>}]
    /\ Abort(p, Outcome(p).error)
    /\ UNCHANGED <<nrows, files, task, pos, rows1, needHeader, written, lock,
                   lockLog, tableExists, table, artifacts, preVars, holeVars>>

\* the loop is exhausted: the paths of the table and of its lock file
LoopExit(p) ==
    /\ pc[p] = "loop" /\ pos[p] = Len(LoopInputs(p))
    /\ pc' = [pc EXCEPT ![p] = "acquire"]
    /\ UNCHANGED <<nrows, files, task, pos, rows1, error, needHeader, written, lock,
                   lockLog, tableExists, table, artifacts, io, preVars, holeVars>>

Acquire_unguarded(p) ==
    /\ pc[p] = "acquire"
    /\ lock' = p
    /\ lockLog' = Append(lockLog, p)
    /\ io' = [io EXCEPT ![p] = @ \cup {<<"lock", "table", -1>>}]
    /\ pc' = [pc EXCEPT ![p] = "from_rows"]
    /\ UNCHANGED <<nrows, files, task, pos, rows1, error, needHeader, written,
                   tableExists, table, artifacts, preVars, holeVars>>

\* FileLock.__enter__: blocks until no other invocation holds the lock file
Acquire(p) ==
    /\ pc[p] = "acquire"
    /\ lock = 0
    /\ lock' = p
    /\ lockLog' = Append(lockLog, p)
    /\ io' = [io EXCEPT ![p] = @ \cup {<<"lock", "table", -1>>}]
    /\ pc' = [pc EXCEPT ![p] = "from_rows"]
    /\ UNCHANGED <<nrows, files, task, pos, rows1, error, needHeader, written,
                   tableExists, table, artifacts, preVars, holeVars>>

FromRowsOk_unlocked(p) ==
    /\ pc[p] = "from_rows"
    /\ lock' = 0
    /\ pc' = [pc EXCEPT ![p] = "exists"]
    /\ UNCHANGED <<nrows, files, task, pos, rows1, error, needHeader, written,
                   lockLog, tableExists, table, artifacts, io, preVars, holeVars>>

\* Individual1.schema().from_rows builds the data frame
FromRowsOk(p) ==
    /\ pc[p] = "from_rows"
    /\ pc' = [pc EXCEPT ![p] = "exists"]
    /\ UNCHANGED <<nrows, files, task, pos, rows1, error, needHeader, written, lock,
                   lockLog, tableExists, table, artifacts, io, preVars, holeVars>>

FromRowsFails_keeps_lock(p) ==
    /\ pc[p] = "from_rows"
    /\ Abort(p, "SerializationError")
    /\ UNCHANGED <<nrows, files, task, pos, rows1, needHeader, written, lock,
                   lockLog, tableExists, table, artifacts, io, preVars, holeVars>>

\* building the data frame raises inside the with block: FileLock.__exit__
\* releases the lock while the exception propagates
FromRowsFails(p) ==
    /\ pc[p] = "from_rows"
    /\ Abort(p, "SerializationError")
    /\ lock' = 0
    /\ UNCHANGED <<nrows, files, task, pos, rows1, needHeader, written,
                   lockLog, tableExists, table, artifacts, io, preVars, holeVars>>

\* header = not output_table.exists(), evaluated before to_csv is entered
CheckExists(p) ==
    /\ pc[p] = "exists"
    /\ needHeader' = [needHeader EXCEPT ![p] = ~tableExists]
    /\ pc' = [pc EXCEPT ![p] = "write"]
    /\ UNCHANGED <<nrows, files, task, pos, rows1, error, written, lock,
                   lockLog, tableExists, table, artifacts, io, preVars, holeVars>>

\* to_csv in append mode writes the next line of the batch
WriteLine(p) ==
    /\ pc[p] = "write"
    /\ written[p] < Len(Batch(p))
    /\ table' = Append(table, Batch(p)[written[p] + 1])
    /\ tableExists' = TRUE
    /\ written' = [written EXCEPT ![p] = @ + 1]
    /\ io' = [io EXCEPT ![p] = @ \cup {<<"write", "table", -1>>}]
    /\ UNCHANGED <<nrows, files, task, pc, pos, rows1, error, needHeader, lock,
                   lockLog, artifacts, preVars, holeVars>>

\* to_csv returns and the with block is left: FileLock.__exit__
CloseAndRelease(p) ==
    /\ pc[p] = "write"
    /\ written[p] = Len(Batch(p))
    /\ tableExists' = TRUE
    /\ lock' = 0
    /\ pc' = [pc EXCEPT ![p] = "done"]
    /\ UNCHANGED <<nrows, files, task, pos, rows1, error, needHeader, written,
                   lockLog, table, artifacts, io, preVars, holeVars>>

\* the steps of an invocation up to the end of its loop
LoopStep(p) ==
    \/ ReadInputTable(p)
    \/ LoopNotImplemented(p)
    \/ LoopUnknownInstrument(p)
    \/ LoopPreprocessOk(p)
    \/ LoopPreprocessFails(p)
    \/ LoopExit(p)

\* the steps of the append: the with block of run()
AppendStep(p) ==
    \/ Acquire(p)
    \/ FromRowsOk(p)
    \/ FromRowsFails(p)
    \/ CheckExists(p)
    \/ WriteLine(p)
    \/ CloseAndRelease(p)

Next == \E p \in Invs : Launch(p) \/ LoopStep(p) \/ AppendStep(p)

Spec == InitRun /\ [][Next]_vars

\* An invocation that can take a step of its append eventually takes one:
\* each invocation is a process of its own, and one that waits for the lock
\* finds it free for good once the finitely many others have ended.  The
\* dataset of this specification has at most one row.
InitFair == InitRun /\ nrows <= 1
FairSpec == InitFair /\ [][Next]_vars /\ \A p \in Invs : WF_vars(AppendStep(p))

----------------------------------------------------------------------------
(* Properties of run() *)

KnownInstruments == {"HARPS", "CORALIE", "HARPN", "ESPRESSO", "EXPRESS"}
Launched(p) == pc[p] # "idle"
LinesBy(p) == {i \in 1..Len(table) : table[i].by = p}
Pickled(p) == {i \in Rows : <<"write", "pickle", i>> \in io[p]}
DataLines == SelectSeq(table, LAMBDA l : l.kind = "row")

\* the invocations whose to_csv has started, in the order of their appends
Appenders == SelectSeq(lockLog, LAMBDA p : pc[p] \in {"write", "done"})

\* C1: once the table file exists it starts with a header line and holds no
\* other header line, and that line was written by the invocation whose
\* append ran first; every later append wrote rows only.
C1_HeaderExactlyOnce ==
    tableExists =>
        /\ Len(table) >= 1
        /\ table[1].kind = "header"
        /\ \A i \in 2..Len(table) : table[i].kind = "row"
        /\ table[1].by = Appenders[1]
        /\ \A k \in 2..Len(Appenders) : ~needHeader[Appenders[k]]

C1_Witness ==
    /\ \A p \in Invs : pc[p] = "done" /\ Len(rows1[p]) >= 1
    /\ Len(table) = 1 + Len(rows1[1]) + Len(rows1[2])

\* the rows invocation p computes, in the order of its index sequence
ExpectedLines(p) ==
    [j \in 1..Len(LoopInputs(p)) |->
        RowLine(p, preprocess_fits_harps_coraline_harpn(
                       task[p].instrument, task[p].plx_mas,
                       tyble(LoopInputs(p)[j]), files[LoopInputs(p)[j]]).row)]

RECURSIVE BlocksOf(_)
BlocksOf(ps) == IF ps = <<>> THEN <<>> ELSE ExpectedLines(Head(ps)) \o BlocksOf(Tail(ps))

AllEnded == \A p \in Invs : pc[p] \in {"idle", "done", "failed"}

\* C2: once every launched invocation has ended, the data rows of the table
\* are the rows of the invocations that appended, each invocation's rows as
\* one contiguous block in its processing order, the blocks in the order in
\* which the lock was acquired: nothing lost, duplicated or interleaved.
C2_RowsAreContiguousBlocks ==
    AllEnded =>
        DataLines = BlocksOf(SelectSeq(lockLog, LAMBDA p : pc[p] = "done"))

C2_Witness ==
    /\ AllEnded
    /\ \A p \in Invs : pc[p] = "done" /\ task[p].inputs # <<>>
    /\ \E p \in Invs : Len(rows1[p]) >= 2
    /\ Len(DataLines) = nrows

LoopErrors == {"KeyError", "ValueError", "NotImplementedError"}

\* C3: an invocation one of whose observations failed has ended without
\* acquiring the lock and without a line in the table, and an invocation
\* with a line in the table processed every selected observation
\* successfully.
C3_FailureAppendsNothing ==
    \A p \in Invs :
        /\ error[p] \in LoopErrors =>
              /\ pc[p] = "failed"
              /\ p \notin Range(lockLog)
              /\ <<"lock", "table", -1>> \notin io[p]
              /\ LinesBy(p) = {}
        /\ LinesBy(p) # {} =>
              /\ pos[p] = Len(LoopInputs(p))
              /\ Len(rows1[p]) = Len(LoopInputs(p))
              /\ \A j \in 1..Len(LoopInputs(p)) :
                    /\ task[p].instrument \in HarpsFamily
                    /\ preprocess_fits_harps_coraline_harpn(
                           task[p].instrument, task[p].plx_mas,
                           tyble(LoopInputs(p)[j]), files[LoopInputs(p)[j]]).ok

C3_Witness ==
    \E p, q \in Invs :
        /\ pc[p] = "failed" /\ error[p] \in {"KeyError", "ValueError"}
        /\ pos[p] >= 1
        /\ pc[q] = "done" /\ Len(rows1[q]) >= 1 /\ LinesBy(q) # {}
        /\ tableExists

\* C4: an invocation that has ended does not hold the lock, also when it
\* ended by a failure inside the with block; and, every running invocation
\* being scheduled, an invocation waiting for the lock gets it and ends.
C4_LockAlwaysReleased ==
    /\ [](\A p \in Invs : pc[p] \in {"done", "failed"} => lock # p)
    /\ \A p \in Invs : (pc[p] = "acquire") ~> (pc[p] \in {"done", "failed"})

C4_Witness ==
    \E p, q \in Invs :
        /\ error[p] = "SerializationError" /\ pc[p] = "failed"
        /\ pc[q] = "done"
        /\ \E a, b \in 1..Len(lockLog) : a < b /\ lockLog[a] = p /\ lockLog[b] = q

\* C5: an invocation launched with an unknown instrument identifier has
\* performed no I/O, and when it is past its loop it has failed with the
\* configuration error.
C5_UnknownInstrumentFailsBeforeIO ==
    \A p \in Invs :
        Launched(p) /\ task[p].instrument \notin KnownInstruments =>
            /\ pc[p] \in {"start", "loop", "failed"}
            /\ pc[p] = "failed" => error[p] = "ValueError"
            /\ pc[p] \in {"failed", "acquire", "from_rows", "exists", "write", "done"}
                  => io[p] = {}

RequiredKeys(instr) ==
    LET kw == IF instr = "HARPN" THEN "TNG" ELSE "ESO"
    IN  {"CDELT1", "CRVAL1", HeaderKey(kw, "DRS BERV"),
         HeaderKey(kw, "DRS CAL TH LAMP OFFSET")}

\* the j-th observation selected by invocation p lacks a required key
MissingAt(p, j) ==
    /\ Launched(p) /\ task[p].instrument \in HarpsFamily
    /\ j \in 1..Len(LoopInputs(p))
    /\ ~(RequiredKeys(task[p].instrument) \subseteq DOMAIN files[LoopInputs(p)[j]].header)

\* C6 as stated: an invocation ended by a missing header key has no row in
\* the table and has written no artifact at all.
C6_NoPartialOutput ==
    \A p \in Invs :
        pc[p] = "failed" /\ error[p] = "KeyError" =>
            LinesBy(p) = {} /\ Pickled(p) = {}

\* C6, amended: when the j-th selected observation lacks a required key,
\* the invocation never completes that iteration, never takes the lock and
\* has no line in the table, and it writes no artifact for that observation
\* or a later one; when it has failed, the artifacts it wrote are exactly
\* those of the observations before the failing one.
C6_NoRowAndNoLaterArtifact ==
    \A p \in Invs : \A j \in 1..MaxRows :
        MissingAt(p, j) =>
            /\ pos[p] < j
            /\ p \notin Range(lockLog)
            /\ LinesBy(p) = {}
            /\ \A k \in j..Len(LoopInputs(p)) : LoopInputs(p)[k] \notin Pickled(p)
            /\ pc[p] = "failed" =>
                  /\ error[p] \in {"KeyError", "ValueError"}
                  /\ Pickled(p) = {LoopInputs(p)[k] : k \in 1..pos[p]}

C6_Witness ==
    \E p \in Invs :
        /\ pc[p] = "failed" /\ error[p] = "KeyError"
        /\ MissingAt(p, pos[p] + 1)
        /\ pos[p] >= 1 /\ Pickled(p) # {}
        /\ artifacts[LoopInputs(p)[1]] # <<>>

----------------------------------------------------------------------------
(* Properties of preprocess_fits_harps_coraline_harpn *)

NoPositive(data) == \A i \in 1..Len(data) : data[i] <= 0

\* C7: a call on an observation without a strictly positive flux sample
\* raises: it returns no row and writes no artifact, and when CDELT1 and
\* CRVAL1 are there to be read the exception is the ValueError of the
\* trimming step.
C7_NoPositiveFluxRaises ==
    result # <<>> /\ NoPositive(obs.file.data) =>
        /\ ~result[1].ok
        /\ "out" \notin DOMAIN result[1]
        /\ "row" \notin DOMAIN result[1]
        /\ {"CDELT1", "CRVAL1"} \subseteq DOMAIN obs.file.header =>
              result[1].error = "ValueError" /\ result[1].at = "trim"

C7_Witness ==
    /\ result # <<>>
    /\ Len(obs.file.data) >= 2
    /\ NoPositive(obs.file.data)
    /\ \E i \in 1..Len(obs.file.data) : obs.file.data[i] = 0
    /\ RequiredKeys(obs.instrument) \subseteq DOMAIN obs.file.header
    /\ result[1].error = "ValueError"

\* C9: a call that returns has trimmed grid and flux to the inclusive range
\* from the first to the last strictly positive sample, so the spectrum is
\* not empty and starts and ends with a positive sample, and wave_min and
\* wave_max, in the artifact and in the row, are the least and the greatest
\* wavelength of the trimmed grid; the call returns whenever there is a
\* positive sample and the required keys are present.
C9_TrimmedToPositiveRange ==
    result # <<>> =>
        LET data == obs.file.data
            h == obs.file.header
            r == result[1]
            positive == {i \in 1..Len(data) : data[i] > 0}
        IN  /\ (positive # {} /\ RequiredKeys(obs.instrument) \subseteq DOMAIN h) => r.ok
            /\ r.ok =>
                 LET first == SetMin(positive)
                     last == SetMax(positive)
                     n == last - first + 1
                     step == Round8(h["CDELT1"])
                     raw == RoundedLinspace(Round8(h["CRVAL1"]),
                                            Round8(h["CRVAL1"] + (Len(data) - 1) * step),
                                            Len(data))
                     waves == {raw[i] : i \in first..last}
                 IN  /\ positive # {}
                     /\ r.locals.begin = first - 1 /\ r.locals.end = last - 1
                     /\ r.out.flux = [i \in 1..n |-> data[first + i - 1]]
                     /\ r.locals.grid = [i \in 1..n |-> raw[first + i - 1]]
                     /\ Len(r.out.flux) >= 1
                     /\ Len(r.out.flux) = Len(r.locals.grid)
                     /\ r.out.flux[1] > 0 /\ r.out.flux[n] > 0
                     /\ r.out.wave_min <= r.out.wave_max
                     /\ r.out.wave_min = SetMin(waves) /\ r.out.wave_max = SetMax(waves)
                     /\ r.row.wave_min = r.out.wave_min /\ r.row.wave_max = r.out.wave_max

C9_Witness ==
    /\ result # <<>>
    /\ result[1].ok
    /\ result[1].locals.begin > 0
    /\ result[1].locals.end < Len(obs.file.data) - 1

\* C10: the proper-motion components are read under the prefix TNG for
\* HARPN and ESO otherwise; both come from the header when both keys are
\* present and both are zero otherwise, and acc_sec is computed from them.
C10_ProperMotionBothOrNeither ==
    result # <<>> /\ result[1].ok =>
        LET h == obs.file.header
            r == result[1]
            kw == IF obs.instrument = "HARPN" THEN "TNG" ELSE "ESO"
            pma == HeaderKey(kw, "TEL TARG PMA")
            pmd == HeaderKey(kw, "TEL TARG PMD")
        IN  /\ r.locals.kw = kw
            /\ IF pma \in DOMAIN h /\ pmd \in DOMAIN h
               THEN r.locals.pma = 1000 * h[pma] /\ r.locals.pmd = 1000 * h[pmd]
               ELSE r.locals.pma = 0 /\ r.locals.pmd = 0
            /\ r.out.acc_sec =
                  IF obs.plx_mas = 0 THEN <<0, 1>>
                  ELSE <<r.locals.pma * r.locals.pma + r.locals.pmd * r.locals.pmd,
                         obs.plx_mas>>
            /\ r.row.acc_sec = r.out.acc_sec

C10_Witness ==
    /\ result # <<>>
    /\ result[1].ok
    /\ obs.plx_mas # 0
    /\ HeaderKey(result[1].locals.kw, "TEL TARG PMA") \in DOMAIN obs.file.header
    /\ HeaderKey(result[1].locals.kw, "TEL TARG PMD") \notin DOMAIN obs.file.header
    /\ result[1].out.acc_sec = <<0, obs.plx_mas>>

----------------------------------------------------------------------------
(* Properties of find_hole *)

\* 0-based index of the first sample of segment j of the encoded flux
SegStart(j) == SeqSum([k \in 1..(j - 1) |-> segs[k].len])

\* the maximal runs of zero samples, as ranges of segments
ZeroRuns ==
    {r \in (1..Len(segs)) \X (1..Len(segs)) :
        /\ r[1] <= r[2]
        /\ \A k \in r[1]..r[2] : segs[k].v = 0
        /\ r[1] = 1 \/ segs[r[1] - 1].v # 0
        /\ r[2] = Len(segs) \/ segs[r[2] + 1].v # 0}
RunFirst(r) == SegStart(r[1])
RunLast(r) == SegStart(r[2] + 1) - 1
RunLength(r) == RunLast(r) - RunFirst(r) + 1
LongestRun ==
    CHOOSE r \in ZeroRuns :
        \A q \in ZeroRuns :
            \/ RunLength(q) < RunLength(r)
            \/ RunLength(q) = RunLength(r) /\ RunFirst(r) <= RunFirst(q)
WaveAt(i) == waveArg[1] + i * waveArg[2]

\* C8: find_hole returns the wavelengths of the first and the last sample
\* of the longest maximal run of exactly-zero samples (the first such run
\* when several are longest) when that run has more than 1000 samples, and
\* the sentinel pair otherwise, also when no sample is zero.
C8_FindHoleLongestRun ==
    hole # <<>> =>
        hole = IF ZeroRuns # {} /\ RunLength(LongestRun) > HoleMinRun
               THEN <<WaveAt(RunFirst(LongestRun)), WaveAt(RunLast(LongestRun))>>
               ELSE <<absurd_minus_99_9, absurd_minus_99_9>>

C8_Witness ==
    /\ hole # <<>>
    /\ hole[1] # absurd_minus_99_9 /\ hole[2] # absurd_minus_99_9
    /\ Cardinality(ZeroRuns) >= 2
    /\ RunFirst(LongestRun) > 0

====
